---- MODULE Spec2Model ----
(***************************************************************************)
(* A model of flogger's DataLogger (src/flogger/logger.py): the registry   *)
(* of entries held in the manager namespace, the units of work _push,      *)
(* _dump and _reset run by the pool's workers under the entry's lock, the  *)
(* list of futures and wait().                                             *)
(*                                                                         *)
(* Granularity.  A call of the facade (declare, push, dump, reset, a       *)
(* setter)                                                                 *)
(* is one step of the calling thread; wait() is two steps, because it      *)
(* blocks between reading the list of futures and clearing it.  A unit of  *)
(* work is one step per statement that reads or writes the managed state   *)
(* (each is one request to the manager): taking the lock, the store, the   *)
(* read and the write of `counters[entry] += 1`, each handler call, the    *)
(* clear, the counter reset, and leaving the `with` block.                 *)
(***************************************************************************)
EXTENDS Integers, Sequences, FiniteSets, TLC

(***************************************************************************)
(* Bounds of the model                                                     *)
(***************************************************************************)
\* Units of work submitted in one behaviour.
MaxTasks == 2
\* Largest n_par given to set_pool.
MaxWorkers == 2
\* Threads of the program that call the logger.
Callers == {"c1", "c2"}
\* Entry names the callers use.
Names == {"a", "b"}
\* Values pushed: a scalar, and an object that cannot be pickled.
Values == {"x", "unpicklable"}
\* push(entry, value, time=None): the omitted time key.
None == -1
\* Explicit time keys.
Times == {1}
\* Arguments of set_mode and set_pool.
Modes == {"active", "passive"}
PoolArgs == { [kind |-> "thread", n |-> MaxWorkers],
              [kind |-> "process", n |-> 1],
              [kind |-> "process", n |-> MaxWorkers] }

\* The (on_push, on_dump, on_reset) lists given to declare: handlers of
\* src/flogger/handlers.py, or none.
NoHandlers == [on_push |-> <<>>, on_dump |-> <<>>, on_reset |-> <<>>]
SomeHandlers ==
    [on_push  |-> <<"add_tsb_scalars_last", "echo_last">>,
     on_dump  |-> <<"save_to_json">>,
     on_reset |-> <<"add_tsb_scalars_last", "echo_last">>]
DeclareArgs == {NoHandlers, SomeHandlers}

\* The inputs of Spec.
EngineDeclares == { [entry |-> "a", args |-> SomeHandlers],
                    [entry |-> "b", args |-> NoHandlers] }
EngineValues == {"x"}
\* The inputs of SpecFacade: "b" is used and never declared.
FacadeDeclares == { [entry |-> "a", args |-> SomeHandlers],
                    [entry |-> "a", args |-> NoHandlers] }

\* The inputs of SpecConfig: paths, logger names, and a pool kind that
\* set_pool does not know.
Paths == {".", "out"}
LoggerNames == {"data-logger", "run"}
ConfigPools == PoolArgs \cup { [kind |-> "fork", n |-> 1] }

\* The inputs of SpecDump: an entry with two on_dump handlers, the second of
\* which raises while the series is empty.
DumpHandlers ==
    [on_push  |-> <<>>,
     on_dump  |-> <<"save_to_json", "echo_last">>,
     on_reset |-> <<>>]
DumpDeclares == { [entry |-> "a", args |-> DumpHandlers],
                  [entry |-> "b", args |-> SomeHandlers] }

\* The inputs of SpecSerie: time keys out of order, and two values.
SerieTimes == {1, 2, 5}
SerieValues == {"x", "y"}

VARIABLES
    name,                \* _managed.name
    path,                \* _managed.path
    mode,                \* _mode
    pool,                \* _pool: [kind, n]
    entries,             \* _managed.entries (a list)
    lockers,             \* _managed.lockers: entry -> owner of the RLock (0: free)
    data,                \* _managed.data: entry -> (time key -> value)
    counters,            \* _managed.counters
    on_push_callables,   \* _managed.on_push_callables
    on_reset_callables,  \* _managed.on_reset_callables
    on_dump_callables,   \* _managed.on_dump_callables
    futures,             \* _futures: the list of futures (task ids)
    tasks,               \* every unit of work submitted, with its future
    queue,               \* the executor's work queue (task ids, FIFO)
    workers,             \* the pool's workers: their task and position in it
    callers,             \* each calling thread: idle, or inside wait()
    last,                \* history: the last facade call and what it raised
    npushed,             \* history: entry -> pushes executed since declare/reset
    instances,           \* Singleton._instances[DataLogger]: an object id (0: absent)
    created,             \* DataLogger objects constructed so far
    threads              \* each thread's DataLogger() call, and the object it got

cfgVars   == <<name, path, mode, pool>>
storeVars == <<entries, lockers, data, counters,
               on_push_callables, on_reset_callables, on_dump_callables>>
execVars  == <<futures, tasks, queue>>
singletonVars == <<instances, created, threads>>
vars == <<name, path, mode, pool, entries, lockers, data, counters,
          on_push_callables, on_reset_callables, on_dump_callables,
          futures, tasks, queue, workers, callers, last, npushed,
          instances, created, threads>>

(***************************************************************************)
(* Dictionaries and lists                                                  *)
(***************************************************************************)
EmptyDict == [k \in {} |-> 0]

\* d[k] = v
Put(d, k, v) == [x \in (DOMAIN d) \cup {k} |-> IF x = k THEN v ELSE d[x]]

Range(s) == {s[i] : i \in DOMAIN s}

\* The values in descending order of key.
RECURSIVE SortedValues_Descending(_)
SortedValues_Descending(d) ==
    IF DOMAIN d = {} THEN <<>>
    ELSE LET k == CHOOSE m \in DOMAIN d : \A j \in DOMAIN d : m >= j
         IN  <<d[k]>> \o SortedValues_Descending([x \in (DOMAIN d) \ {k} |-> d[x]])

\* sorted(d.items()), then the values: the items in ascending order of key.
RECURSIVE SortedValues(_)
SortedValues(d) ==
    IF DOMAIN d = {} THEN <<>>
    ELSE LET k == CHOOSE m \in DOMAIN d : \A j \in DOMAIN d : m <= j
         IN  <<d[k]>> \o SortedValues([x \in (DOMAIN d) \ {k} |-> d[x]])

IdleWorker == [task |-> 0, pc |-> "idle", idx |-> 0, tmp |-> 0]
IdleCaller == [pc |-> "idle", fs |-> {}]

\* The value cannot be sent to the manager: pickling it raises.
Storable(v) == v # "unpicklable"

(***************************************************************************)
(* Handlers (src/flogger/handlers.py), by whether the call raises          *)
(***************************************************************************)
\* echo_last: max(data.keys()) raises on an empty series.
\* add_tsb_scalars_last: max() raises on an empty series, len(value) on a scalar.
\* save_to_json: writes dict(data), whatever it holds.
HandlerRaises(h, series) ==
    CASE h = "echo_last"            -> DOMAIN series = {}
      [] h = "add_tsb_scalars_last" -> TRUE
      [] OTHER                      -> FALSE

(***************************************************************************)
(* Initial state: DataLogger.__init__                                      *)
(*                                                                         *)
(* The variables of the logger describe the object that DataLogger()       *)
(* returns, the one held in Singleton._instances.  In Init the object has  *)
(* been constructed and every thread holds it.                             *)
(***************************************************************************)
Init ==
    /\ name = "data-logger"
    /\ path = "."
    /\ mode = "active"
    /\ pool = [kind |-> "thread", n |-> 1]
    /\ entries = <<>>
    /\ lockers = EmptyDict
    /\ data = EmptyDict
    /\ counters = EmptyDict
    /\ on_push_callables = EmptyDict
    /\ on_reset_callables = EmptyDict
    /\ on_dump_callables = EmptyDict
    /\ futures = <<>>
    /\ tasks = <<>>
    /\ queue = <<>>
    /\ workers = [i \in 1..MaxWorkers |-> IdleWorker]
    /\ callers = [c \in Callers |-> IdleCaller]
    /\ last = [op |-> "init", entry |-> "", raised |-> "none"]
    /\ npushed = EmptyDict
    /\ instances = 1
    /\ created = 1
    /\ threads = [c \in Callers |-> [pc |-> "idle", obj |-> 0, got |-> 1]]

Idle(c) == callers[c].pc = "idle"

(***************************************************************************)
(* What a facade call raises ("none": it returns)                          *)
(***************************************************************************)
\* set_path, without the test of the registry.
set_path_raises_Never == "none"

\* if len(self._managed.lockers) != 0: raise Exception(...)
set_path_raises == IF DOMAIN lockers # {} THEN "Exception" ELSE "none"

\* assert mode in ["active", "passive"]
set_mode_raises(m) == IF m \notin {"active", "passive"} THEN "AssertionError" ELSE "none"

\* if len(self._managed.lockers) != 0: raise ...; else: raise Exception(unknown pool)
set_pool_raises(kind) ==
    IF DOMAIN lockers # {} THEN "Exception"
    ELSE IF kind \notin {"thread", "process"} THEN "Exception"
    ELSE "none"

\* declare, without the test of the name.
declare_raises_Never(e) == "none"

\* if entry in self._managed.entries: raise Exception(...)
declare_raises(e) == IF e \in Range(entries) THEN "Exception" ELSE "none"

\* self._managed.counters[entry], evaluated when the mode is active and no
\* time is given
push_raises(e, t) ==
    IF mode = "active" /\ t = None /\ e \notin DOMAIN counters
    THEN "KeyError" ELSE "none"

(***************************************************************************)
(* The facade: configuration                                               *)
(***************************************************************************)
set_path(c, p) ==
    /\ Idle(c)
    /\ IF set_path_raises # "none"
       THEN UNCHANGED path
       ELSE path' = p
    /\ UNCHANGED <<name, mode, pool, storeVars, execVars, workers, callers, npushed>>
    /\ UNCHANGED singletonVars

set_mode(c, m) ==
    /\ Idle(c)
    /\ IF set_mode_raises(m) # "none"
       THEN UNCHANGED mode
       ELSE mode' = m
    /\ UNCHANGED <<name, path, pool, storeVars, execVars, workers, callers, npushed>>
    /\ UNCHANGED singletonVars

\* The executor is replaced.  The model chooses the pool before the first
\* submission, so that no unit of work is left on a replaced executor.
set_pool(c, kind, n) ==
    /\ Idle(c)
    /\ IF set_pool_raises(kind) # "none"
       THEN UNCHANGED pool
       ELSE /\ tasks = <<>>
            /\ pool' = [kind |-> kind, n |-> n]
    /\ UNCHANGED <<name, path, mode, storeVars, execVars, workers, callers, npushed>>
    /\ UNCHANGED singletonVars

set_name(c, nm) ==
    /\ Idle(c)
    /\ name' = nm
    /\ UNCHANGED <<path, mode, pool, storeVars, execVars, workers, callers, npushed>>
    /\ UNCHANGED singletonVars

(***************************************************************************)
(* The facade: declare                                                     *)
(***************************************************************************)
declare(c, e, args) ==
    /\ Idle(c)
    /\ IF declare_raises(e) # "none"
       THEN UNCHANGED <<storeVars, npushed>>
       ELSE /\ entries' = Append(entries, e)
            /\ lockers' = Put(lockers, e, 0)
            /\ data' = Put(data, e, EmptyDict)
            /\ counters' = Put(counters, e, 0)
            /\ on_push_callables' = Put(on_push_callables, e, args.on_push)
            /\ on_reset_callables' = Put(on_reset_callables, e, args.on_reset)
            /\ on_dump_callables' = Put(on_dump_callables, e, args.on_dump)
            /\ npushed' = Put(npushed, e, 0)
    /\ UNCHANGED <<cfgVars, execVars, workers, callers>>
    /\ UNCHANGED singletonVars

(***************************************************************************)
(* The facade: push, dump, reset submit units of work                      *)
(***************************************************************************)
\* given: the time argument as the caller gave it (history); time: the key
\* the unit of work stores under; started_in: the mode at the time a worker
\* takes the unit of work (history).
Task(op, e, v, t, key, c) ==
    [op |-> op, entry |-> e, value |-> v, given |-> t, time |-> key, by |-> c,
     state |-> "PENDING", started_in |-> "", exc |-> "none", calls |-> <<>>]

\* _pool.submit(...), add_done_callback, _futures.append(future), for each of ts
Submit(ts) ==
    LET ids == [k \in 1..Len(ts) |-> Len(tasks) + k]
    IN  /\ tasks' = tasks \o ts
        /\ queue' = queue \o ids
        /\ futures' = futures \o ids

\* push, without the test of the mode.
push_IgnoresMode(c, e, v, t) ==
    /\ Idle(c)
    /\ IF e \notin DOMAIN counters /\ t = None
       THEN UNCHANGED execVars
       ELSE /\ Len(tasks) < MaxTasks
            /\ Submit(<<Task("push", e, v, t,
                             IF t # None THEN t ELSE counters[e], c)>>)
    /\ UNCHANGED <<cfgVars, storeVars, workers, callers, npushed>>
    /\ UNCHANGED singletonVars

\* push, blocking while the entry's lock is held.
push_WaitsForLock(c, e, v, t) ==
    /\ Idle(c)
    /\ e \in DOMAIN lockers => lockers[e] = 0
    /\ IF mode = "active"
       THEN IF push_raises(e, t) # "none"
            THEN UNCHANGED execVars
            ELSE /\ Len(tasks) < MaxTasks
                 /\ Submit(<<Task("push", e, v, t,
                                  IF t # None THEN t ELSE counters[e], c)>>)
       ELSE UNCHANGED execVars
    /\ UNCHANGED <<cfgVars, storeVars, workers, callers, npushed>>
    /\ UNCHANGED singletonVars

push(c, e, v, t) ==
    /\ Idle(c)
    /\ IF mode = "active"
       THEN IF push_raises(e, t) # "none"
            THEN UNCHANGED execVars
            ELSE /\ Len(tasks) < MaxTasks
                 /\ Submit(<<Task("push", e, v, t,
                                  IF t # None THEN t ELSE counters[e], c)>>)
       ELSE UNCHANGED execVars
    /\ UNCHANGED <<cfgVars, storeVars, workers, callers, npushed>>
    /\ UNCHANGED singletonVars

\* dump, for the first entry only.
dump_FirstEntryOnly(c) ==
    /\ Idle(c)
    /\ IF mode = "active" /\ entries # <<>>
       THEN /\ Len(tasks) + Len(entries) <= MaxTasks
            /\ Submit(<<Task("dump", entries[1], "", None, None, c)>>)
       ELSE UNCHANGED execVars
    /\ UNCHANGED <<cfgVars, storeVars, workers, callers, npushed>>
    /\ UNCHANGED singletonVars

dump(c) ==
    /\ Idle(c)
    /\ IF mode = "active"
       THEN /\ Len(tasks) + Len(entries) <= MaxTasks
            /\ Submit([k \in 1..Len(entries) |->
                          Task("dump", entries[k], "", None, None, c)])
       ELSE UNCHANGED execVars
    /\ UNCHANGED <<cfgVars, storeVars, workers, callers, npushed>>
    /\ UNCHANGED singletonVars

reset(c, e) ==
    /\ Idle(c)
    /\ IF mode = "active"
       THEN /\ Len(tasks) < MaxTasks
            /\ Submit(<<Task("reset", e, "", None, None, c)>>)
       ELSE UNCHANGED execVars
    /\ UNCHANGED <<cfgVars, storeVars, workers, callers, npushed>>
    /\ UNCHANGED singletonVars

(***************************************************************************)
(* The facade: reads                                                       *)
(***************************************************************************)
get_entry_length(e) ==
    IF e \in DOMAIN counters THEN counters[e] ELSE "KeyError"

get_serie(e) ==
    IF e \in DOMAIN data THEN SortedValues(data[e]) ELSE "KeyError"

get_path == path

(***************************************************************************)
(* The facade: wait                                                        *)
(***************************************************************************)
Done(t) == tasks[t].state = "FINISHED"

\* wait(self._futures) starts: concurrent.futures.wait copies the list it is
\* given into a set and blocks until each of these futures is done.
wait_begin(c) ==
    /\ Idle(c)
    /\ callers' = [callers EXCEPT ![c] = [pc |-> "waiting", fs |-> Range(futures)]]
    /\ UNCHANGED <<cfgVars, storeVars, execVars, workers, npushed>>
    /\ UNCHANGED singletonVars

\* wait(self._futures) returns; self._futures.clear()
wait_end(c) ==
    /\ callers[c].pc = "waiting"
    /\ \A t \in callers[c].fs : Done(t)
    /\ futures' = <<>>
    /\ callers' = [callers EXCEPT ![c] = IdleCaller]
    /\ UNCHANGED <<cfgVars, storeVars, tasks, queue, workers, npushed>>
    /\ UNCHANGED singletonVars

(***************************************************************************)
(* The pool's workers                                                      *)
(***************************************************************************)
Running(i) == workers[i].task # 0
TaskOf(i) == tasks[workers[i].task]
At(i, pc) == i <= pool.n /\ Running(i) /\ workers[i].pc = pc

\* The handlers the unit of work calls.
Callables(t) ==
    CASE t.op = "push"  -> on_push_callables[t.entry]
      [] t.op = "dump"  -> on_dump_callables[t.entry]
      [] t.op = "reset" -> on_reset_callables[t.entry]

\* Where a unit of work goes once its handlers are called.
AfterHandlers(t) == IF t.op = "reset" THEN "clear" ELSE "exit"

\* Where it goes before the loop over its handlers.
ToHandlers(t) == IF Callables(t) = <<>> THEN AfterHandlers(t) ELSE "handlers"

Goto(i, pc) == workers' = [workers EXCEPT ![i].pc = pc, ![i].idx = 1]

\* The future of worker i's task is set (result or exception); the done
\* callback _futures_callback prints the exception.  The worker is free.
Finish(i, exc) ==
    /\ tasks' = [tasks EXCEPT ![workers[i].task].state = "FINISHED",
                              ![workers[i].task].exc = exc]
    /\ workers' = [workers EXCEPT ![i] = IdleWorker]

\* Take, from the wrong end of the queue.
Take_Newest(i) ==
    /\ i <= pool.n
    /\ ~Running(i)
    /\ \A j \in 1..(i - 1) : Running(j)
    /\ queue # <<>>
    /\ queue' = SubSeq(queue, 1, Len(queue) - 1)
    /\ tasks' = [tasks EXCEPT ![queue[Len(queue)]].state = "RUNNING",
                              ![queue[Len(queue)]].started_in = mode]
    /\ workers' = [workers EXCEPT ![i] = [task |-> queue[Len(queue)], pc |-> "lock",
                                          idx |-> 1, tmp |-> 0]]
    /\ UNCHANGED <<cfgVars, storeVars, futures, callers, last, npushed>>
    /\ UNCHANGED singletonVars

\* Take, by a worker that consults the mode.
Take_WhenActive(i) ==
    /\ mode = "active"
    /\ i <= pool.n
    /\ ~Running(i)
    /\ \A j \in 1..(i - 1) : Running(j)
    /\ queue # <<>>
    /\ queue' = Tail(queue)
    /\ tasks' = [tasks EXCEPT ![Head(queue)].state = "RUNNING",
                              ![Head(queue)].started_in = mode]
    /\ workers' = [workers EXCEPT ![i] = [task |-> Head(queue), pc |-> "lock",
                                          idx |-> 1, tmp |-> 0]]
    /\ UNCHANGED <<cfgVars, storeVars, futures, callers, last, npushed>>
    /\ UNCHANGED singletonVars

\* Take, of any work item of the queue.
Take_AnyQueued(i) ==
    /\ i <= pool.n
    /\ ~Running(i)
    /\ \A j \in 1..(i - 1) : Running(j)
    /\ \E q \in DOMAIN queue :
           /\ queue' = SubSeq(queue, 1, q - 1) \o SubSeq(queue, q + 1, Len(queue))
           /\ tasks' = [tasks EXCEPT ![queue[q]].state = "RUNNING",
                                     ![queue[q]].started_in = mode]
           /\ workers' = [workers EXCEPT ![i] = [task |-> queue[q], pc |-> "lock",
                                                 idx |-> 1, tmp |-> 0]]
    /\ UNCHANGED <<cfgVars, storeVars, futures, callers, last, npushed>>
    /\ UNCHANGED singletonVars

\* A worker takes the next work item of the queue.  The idle workers are
\* interchangeable: the one of least index takes it.
Take(i) ==
    /\ i <= pool.n
    /\ ~Running(i)
    /\ \A j \in 1..(i - 1) : Running(j)
    /\ queue # <<>>
    /\ queue' = Tail(queue)
    /\ tasks' = [tasks EXCEPT ![Head(queue)].state = "RUNNING",
                              ![Head(queue)].started_in = mode]
    /\ workers' = [workers EXCEPT ![i] = [task |-> Head(queue), pc |-> "lock",
                                          idx |-> 1, tmp |-> 0]]
    /\ UNCHANGED <<cfgVars, storeVars, futures, callers, last, npushed>>
    /\ UNCHANGED singletonVars

\* Acquire, entering the with block whether or not the lock is free.
Acquire_NoExclusion(i) ==
    /\ At(i, "lock")
    /\ LET t == TaskOf(i) IN
       IF t.entry \notin DOMAIN lockers
       THEN /\ Finish(i, "KeyError")
            /\ UNCHANGED lockers
       ELSE /\ lockers' = [lockers EXCEPT ![t.entry] = i]
            /\ Goto(i, IF t.op = "push" THEN "store" ELSE ToHandlers(t))
            /\ UNCHANGED tasks
    /\ UNCHANGED <<cfgVars, entries, data, counters, on_push_callables,
                   on_reset_callables, on_dump_callables,
                   futures, queue, callers, last, npushed>>
    /\ UNCHANGED singletonVars

\* with managed.lockers[entry]:
Acquire(i) ==
    /\ At(i, "lock")
    /\ LET t == TaskOf(i) IN
       IF t.entry \notin DOMAIN lockers
       THEN /\ Finish(i, "KeyError")
            /\ UNCHANGED lockers
       ELSE /\ lockers[t.entry] = 0
            /\ lockers' = [lockers EXCEPT ![t.entry] = i]
            /\ Goto(i, IF t.op = "push" THEN "store" ELSE ToHandlers(t))
            /\ UNCHANGED tasks
    /\ UNCHANGED <<cfgVars, entries, data, counters, on_push_callables,
                   on_reset_callables, on_dump_callables,
                   futures, queue, callers, last, npushed>>
    /\ UNCHANGED singletonVars

\* Leaving the with block with the lock still held.
Release_Never(i) == UNCHANGED lockers

\* The lock is released as an exception leaves the with block.
Release(i) ==
    lockers' = [lockers EXCEPT ![TaskOf(i).entry] =
                    IF @ = i THEN 0 ELSE @]

\* managed.data[entry][time] = value
Store(i) ==
    /\ At(i, "store")
    /\ LET t == TaskOf(i) IN
       IF Storable(t.value)
       THEN /\ data' = [data EXCEPT ![t.entry] = Put(@, t.time, t.value)]
            /\ Goto(i, "incr_read")
            /\ UNCHANGED <<tasks, lockers>>
       ELSE /\ Release(i)
            /\ Finish(i, "PicklingError")
            /\ UNCHANGED data
    /\ UNCHANGED <<cfgVars, entries, counters, on_push_callables,
                   on_reset_callables, on_dump_callables,
                   futures, queue, callers, last, npushed>>
    /\ UNCHANGED singletonVars

\* managed.counters[entry] += 1: the read
IncrRead(i) ==
    /\ At(i, "incr_read")
    /\ workers' = [workers EXCEPT ![i].pc = "incr_write",
                                  ![i].tmp = counters[TaskOf(i).entry]]
    /\ UNCHANGED <<cfgVars, storeVars, execVars, callers, last, npushed>>
    /\ UNCHANGED singletonVars

\* managed.counters[entry] += 1: the write
IncrWrite(i) ==
    /\ At(i, "incr_write")
    /\ counters' = [counters EXCEPT ![TaskOf(i).entry] = workers[i].tmp + 1]
    /\ Goto(i, ToHandlers(TaskOf(i)))
    /\ UNCHANGED <<cfgVars, entries, lockers, data, on_push_callables,
                   on_reset_callables, on_dump_callables,
                   execVars, callers, last, npushed>>
    /\ UNCHANGED singletonVars

\* Handler, without the try: the handler's exception leaves the with block.
Handler_Propagates(i) ==
    /\ At(i, "handlers")
    /\ LET t  == TaskOf(i)
           hs == Callables(t)
           k  == workers[i].idx
           call == [h |-> hs[k], seen |-> data[t.entry],
                    raised |-> HandlerRaises(hs[k], data[t.entry])]
       IN  IF call.raised
           THEN /\ tasks' = [tasks EXCEPT ![workers[i].task].calls = Append(@, call),
                                         ![workers[i].task].state = "FINISHED",
                                         ![workers[i].task].exc = "HandlerError"]
                /\ workers' = [workers EXCEPT ![i] = IdleWorker]
                /\ Release(i)
           ELSE /\ tasks' = [tasks EXCEPT ![workers[i].task].calls = Append(@, call)]
                /\ workers' = [workers EXCEPT
                                 ![i].idx = k + 1,
                                 ![i].pc = IF k = Len(hs) THEN AfterHandlers(t)
                                           ELSE "handlers"]
                /\ UNCHANGED lockers
    /\ UNCHANGED <<cfgVars, entries, data, counters, on_push_callables,
                   on_reset_callables, on_dump_callables,
                   futures, queue, callers, last, npushed>>
    /\ UNCHANGED singletonVars

\* try: f(entry, managed.data[entry], path=managed.path); except: warning
Handler(i) ==
    /\ At(i, "handlers")
    /\ LET t  == TaskOf(i)
           hs == Callables(t)
           k  == workers[i].idx
           call == [h |-> hs[k], seen |-> data[t.entry],
                    raised |-> HandlerRaises(hs[k], data[t.entry])]
       IN  /\ tasks' = [tasks EXCEPT ![workers[i].task].calls = Append(@, call)]
           /\ workers' = [workers EXCEPT
                            ![i].idx = k + 1,
                            ![i].pc = IF k = Len(hs) THEN AfterHandlers(t) ELSE "handlers"]
    /\ UNCHANGED <<cfgVars, storeVars, futures, queue, callers, last, npushed>>
    /\ UNCHANGED singletonVars

\* _reset, without the clear of the series.
Clear_KeepsSeries(i) ==
    /\ At(i, "clear")
    /\ Goto(i, "zero")
    /\ UNCHANGED <<cfgVars, storeVars, execVars, callers, last, npushed>>
    /\ UNCHANGED singletonVars

\* managed.data[entry].clear()
Clear(i) ==
    /\ At(i, "clear")
    /\ data' = [data EXCEPT ![TaskOf(i).entry] = EmptyDict]
    /\ Goto(i, "zero")
    /\ UNCHANGED <<cfgVars, entries, lockers, counters, on_push_callables,
                   on_reset_callables, on_dump_callables,
                   execVars, callers, last, npushed>>
    /\ UNCHANGED singletonVars

\* Zero, leaving the counter as it is.
Zero_KeepsCounter(i) ==
    /\ At(i, "zero")
    /\ Goto(i, "exit")
    /\ UNCHANGED <<cfgVars, storeVars, execVars, callers, last, npushed>>
    /\ UNCHANGED singletonVars

\* managed.counters[entry] = 0
Zero(i) ==
    /\ At(i, "zero")
    /\ counters' = [counters EXCEPT ![TaskOf(i).entry] = 0]
    /\ Goto(i, "exit")
    /\ UNCHANGED <<cfgVars, entries, lockers, data, on_push_callables,
                   on_reset_callables, on_dump_callables,
                   execVars, callers, last, npushed>>
    /\ UNCHANGED singletonVars

\* Exit, returning with the lock still held.
Exit_KeepsLock(i) ==
    /\ At(i, "exit")
    /\ Finish(i, "none")
    /\ npushed' = [npushed EXCEPT ![TaskOf(i).entry] =
                      CASE TaskOf(i).op = "push"  -> @ + 1
                        [] TaskOf(i).op = "reset" -> 0
                        [] OTHER                  -> @]
    /\ UNCHANGED <<cfgVars, storeVars, futures, queue, callers, last>>
    /\ UNCHANGED singletonVars

\* The with block is left, the function returns, the future gets its result.
Exit(i) ==
    /\ At(i, "exit")
    /\ Release(i)
    /\ Finish(i, "none")
    /\ npushed' = [npushed EXCEPT ![TaskOf(i).entry] =
                      CASE TaskOf(i).op = "push"  -> @ + 1
                        [] TaskOf(i).op = "reset" -> 0
                        [] OTHER                  -> @]
    /\ UNCHANGED <<cfgVars, entries, data, counters, on_push_callables,
                   on_reset_callables, on_dump_callables,
                   futures, queue, callers, last>>
    /\ UNCHANGED singletonVars

(***************************************************************************)
(* Singleton.__call__: DataLogger()                                        *)
(*                                                                         *)
(* A call is four steps of the calling thread: the test of _instances, the *)
(* construction of the object, the store into _instances, and the read of  *)
(* _instances that is returned.  Nothing locks them.                       *)
(***************************************************************************)
NoThread == [pc |-> "idle", obj |-> 0, got |-> 0]

\* Before the first DataLogger(): _instances is empty.  The variables of
\* the logger hold the values __init__ will give them.
InitSingleton ==
    /\ name = "data-logger"
    /\ path = "."
    /\ mode = "active"
    /\ pool = [kind |-> "thread", n |-> 1]
    /\ entries = <<>>
    /\ lockers = EmptyDict
    /\ data = EmptyDict
    /\ counters = EmptyDict
    /\ on_push_callables = EmptyDict
    /\ on_reset_callables = EmptyDict
    /\ on_dump_callables = EmptyDict
    /\ futures = <<>>
    /\ tasks = <<>>
    /\ queue = <<>>
    /\ workers = [i \in 1..MaxWorkers |-> IdleWorker]
    /\ callers = [c \in Callers |-> IdleCaller]
    /\ last = [op |-> "init", entry |-> "", raised |-> "none"]
    /\ npushed = EmptyDict
    /\ instances = 0
    /\ created = 0
    /\ threads = [c \in Callers |-> NoThread]

\* if cls not in cls._instances:
Check(c) ==
    /\ threads[c].pc = "idle"
    /\ threads' = [threads EXCEPT ![c].pc =
                       IF instances = 0 THEN "construct" ELSE "return"]
    /\ UNCHANGED <<cfgVars, storeVars, execVars, workers, callers, last, npushed,
                   instances, created>>

\* super(Singleton, cls).__call__(*args, **kwargs): DataLogger.__init__
\* builds a new object, with its own manager.
Construct(c) ==
    /\ threads[c].pc = "construct"
    /\ created' = created + 1
    /\ threads' = [threads EXCEPT ![c].pc = "store", ![c].obj = created + 1]
    /\ UNCHANGED <<cfgVars, storeVars, execVars, workers, callers, last, npushed,
                   instances>>

\* cls._instances[cls] = <the new object>: from now on DataLogger() returns
\* the new object, whose registry is empty.
StoreInstance(c) ==
    /\ threads[c].pc = "store"
    /\ instances' = threads[c].obj
    /\ threads' = [threads EXCEPT ![c].pc = "return"]
    /\ name' = "data-logger"
    /\ path' = "."
    /\ mode' = "active"
    /\ pool' = [kind |-> "thread", n |-> 1]
    /\ entries' = <<>>
    /\ lockers' = EmptyDict
    /\ data' = EmptyDict
    /\ counters' = EmptyDict
    /\ on_push_callables' = EmptyDict
    /\ on_reset_callables' = EmptyDict
    /\ on_dump_callables' = EmptyDict
    /\ npushed' = EmptyDict
    /\ UNCHANGED <<execVars, workers, callers, last, created>>

\* return cls._instances[cls]
Return(c) ==
    /\ threads[c].pc = "return"
    /\ threads' = [threads EXCEPT ![c].pc = "idle", ![c].got = instances]
    /\ UNCHANGED <<cfgVars, storeVars, execVars, workers, callers, last, npushed,
                   instances, created>>

\* The thread holds the object that is in _instances.
HoldsInstance(c) ==
    threads[c].pc = "idle" /\ threads[c].got # 0 /\ threads[c].got = instances

(***************************************************************************)
(* The specifications                                                      *)
(***************************************************************************)
WorkerStep ==
    \E i \in 1..MaxWorkers :
        \/ Take(i)
        \/ Acquire(i)
        \/ Store(i)
        \/ IncrRead(i)
        \/ IncrWrite(i)
        \/ Handler(i)
        \/ Clear(i)
        \/ Zero(i)
        \/ Exit(i)

\* Spec: one thread declares entries and submits work in active mode; the
\* pool's workers execute it.
EngineCall ==
    \E c \in {"c1"} :
        \/ \E a \in PoolArgs : set_pool(c, a.kind, a.n) /\ UNCHANGED last
        \/ \E d \in EngineDeclares : declare(c, d.entry, d.args) /\ UNCHANGED last
        \/ \E e \in Names, v \in EngineValues, t \in Times \cup {None} : push(c, e, v, t) /\ UNCHANGED last
        \/ dump(c) /\ UNCHANGED last
        \/ \E e \in Names : reset(c, e) /\ UNCHANGED last

Next == EngineCall \/ WorkerStep

Spec == Init /\ [][Next]_vars

\* SpecDrain: one thread submits work on one entry and drains it with wait().
DrainCall ==
    \E c \in {"c1"} :
        \/ \E a \in PoolArgs : set_pool(c, a.kind, a.n) /\ UNCHANGED last
        \/ declare(c, "a", SomeHandlers) /\ UNCHANGED last
        \/ \E v \in Values, t \in Times \cup {None} : push(c, "a", v, t) /\ UNCHANGED last
        \/ dump(c) /\ UNCHANGED last
        \/ reset(c, "a") /\ UNCHANGED last
        \/ wait_begin(c) /\ UNCHANGED last
        \/ wait_end(c) /\ UNCHANGED last

NextDrain == DrainCall \/ WorkerStep

SpecDrain == Init /\ [][NextDrain]_vars

\* SpecFair: one thread submits every kind of unit of work on two entries and
\* waits, on one or two workers, under the scheduling the claims of
\* termination assume: a worker that can take a step eventually takes one
\* (handlers terminate, the pool's threads run), and concurrent.futures.wait
\* returns once its futures are done.
FairCall ==
    \E c \in {"c1"} :
        \/ set_pool(c, "thread", MaxWorkers) /\ UNCHANGED last
        \/ \E d \in EngineDeclares : declare(c, d.entry, d.args) /\ UNCHANGED last
        \/ \E e \in Names : push(c, e, "x", None) /\ UNCHANGED last
        \/ dump(c) /\ UNCHANGED last
        \/ reset(c, "a") /\ UNCHANGED last
        \/ wait_begin(c) /\ UNCHANGED last

WaitReturns == \E c \in {"c1"} : wait_end(c) /\ UNCHANGED last

NextFair == FairCall \/ WaitReturns \/ WorkerStep

SpecFair == Init /\ [][NextFair]_vars /\ WF_vars(WorkerStep) /\ WF_vars(WaitReturns)

\* SpecFacade: one thread calls the facade in both modes, with declared and
\* undeclared names; the default pool executes what it submits.  Each call
\* is recorded in `last`.
Log(op, e, exc) == last' = [op |-> op, entry |-> e, raised |-> exc]

FacadeCall ==
    \E c \in {"c1"} :
        \/ \E m \in Modes : set_mode(c, m) /\ Log("set_mode", "", set_mode_raises(m))
        \/ \E d \in FacadeDeclares :
              declare(c, d.entry, d.args) /\ Log("declare", d.entry, declare_raises(d.entry))
        \/ \E e \in Names, v \in EngineValues, t \in Times \cup {None} :
              push(c, e, v, t) /\ Log("push", e, push_raises(e, t))
        \/ dump(c) /\ Log("dump", "", "none")
        \/ \E e \in Names : reset(c, e) /\ Log("reset", e, "none")

NextFacade == FacadeCall \/ WorkerStep

SpecFacade == Init /\ [][NextFacade]_vars

\* SpecConfig: one thread configures the logger before and after it declares
\* an entry, and uses the entry.
ConfigCall ==
    \E c \in {"c1"} :
        \/ \E p \in Paths : set_path(c, p) /\ Log("set_path", "", set_path_raises)
        \/ \E a \in ConfigPools :
              set_pool(c, a.kind, a.n) /\ Log("set_pool", "", set_pool_raises(a.kind))
        \/ \E nm \in LoggerNames : set_name(c, nm) /\ Log("set_name", "", "none")
        \/ declare(c, "a", SomeHandlers) /\ Log("declare", "a", declare_raises("a"))
        \/ push(c, "a", "x", None) /\ Log("push", "a", push_raises("a", None))
        \/ reset(c, "a") /\ Log("reset", "a", "none")

NextConfig == ConfigCall \/ WorkerStep

SpecConfig == Init /\ [][NextConfig]_vars

\* SpecSerie: one thread pushes values under explicit keys in any order, on
\* one or two workers, and reads the series.
SerieCall ==
    \E c \in {"c1"} :
        \/ set_pool(c, "thread", MaxWorkers) /\ UNCHANGED last
        \/ declare(c, "a", SomeHandlers) /\ UNCHANGED last
        \/ \E v \in SerieValues, t \in SerieTimes : push(c, "a", v, t) /\ UNCHANGED last
        \/ reset(c, "a") /\ UNCHANGED last

NextSerie == SerieCall \/ WorkerStep

SpecSerie == Init /\ [][NextSerie]_vars

\* SpecDump: one thread declares two entries, pushes, resets and dumps, on
\* one or two workers.
DumpCall ==
    \E c \in {"c1"} :
        \/ set_pool(c, "thread", MaxWorkers) /\ UNCHANGED last
        \/ \E d \in DumpDeclares : declare(c, d.entry, d.args) /\ UNCHANGED last
        \/ \E e \in Names : push(c, e, "x", 1) /\ UNCHANGED last
        \/ reset(c, "b") /\ UNCHANGED last
        \/ dump(c) /\ UNCHANGED last

NextDump == DumpCall \/ WorkerStep

SpecDump == Init /\ [][NextDump]_vars

\* SpecSingleton: from the start of the process, two threads call
\* DataLogger() any number of times and declare entries on the object held
\* in _instances.
NextSingleton ==
    \E c \in Callers :
        \/ Check(c)
        \/ Construct(c)
        \/ StoreInstance(c)
        \/ Return(c)
        \/ \E e \in Names :
              HoldsInstance(c) /\ declare(c, e, NoHandlers) /\ UNCHANGED last

SpecSingleton == InitSingleton /\ [][NextSingleton]_vars

\* SpecCallers: two threads use the logger at the same time.
CallersCall ==
    \E c \in Callers :
        \/ \E a \in {[kind |-> "thread", n |-> MaxWorkers]} : set_pool(c, a.kind, a.n) /\ UNCHANGED last
        \/ declare(c, "a", SomeHandlers) /\ UNCHANGED last
        \/ push(c, "a", "x", None) /\ UNCHANGED last
        \/ reset(c, "a") /\ UNCHANGED last
        \/ wait_begin(c) /\ UNCHANGED last
        \/ wait_end(c) /\ UNCHANGED last

NextCallers == CallersCall \/ WorkerStep

SpecCallers == Init /\ [][NextCallers]_vars

(***************************************************************************)
(* Claims                                                                  *)
(***************************************************************************)
IsPush(t)  == t.op = "push"
IsReset(t) == t.op = "reset"
TaskIds == DOMAIN tasks

\* C1: whenever wait() returns to a caller, every unit of work this caller
\* submitted before calling wait() has completed, also when another caller
\* submits work and calls wait() at the same time (checked under SpecCallers).
C1_WaitCoversOwnWork ==
    [][\A c \in Callers :
          (callers[c].pc = "waiting" /\ callers'[c].pc = "idle")
              => \A k \in TaskIds : tasks[k].by = c => tasks'[k].state = "FINISHED"
      ]_vars

\* Worker i is inside the with block of its unit of work.
InLock(i) ==
    /\ Running(i)
    /\ workers[i].pc \in {"store", "incr_read", "incr_write", "handlers",
                          "clear", "zero", "exit"}

\* C2: whenever no unit of work holds e's lock, e's counter is the number of
\* pushes on e that have completed since e was declared or last reset,
\* whichever workers ran them.
C2_CounterCountsPushes ==
    \A e \in DOMAIN counters : lockers[e] = 0 => counters[e] = npushed[e]

\* Two pushes on the same entry have completed on a pool of several workers.
C2_Witness ==
    \E e \in DOMAIN counters :
        /\ lockers[e] = 0
        /\ pool.n > 1
        /\ counters[e] = 2
        /\ \A k \in TaskIds : IsPush(tasks[k]) /\ tasks[k].entry = e
                                /\ tasks[k].state = "FINISHED"

\* At most one unit of work on an entry is inside its with block.
Exclusive ==
    \A i, j \in 1..MaxWorkers :
        (i # j /\ InLock(i) /\ InLock(j)) => TaskOf(i).entry # TaskOf(j).entry

\* An entry's series and counter change only in a step of the worker that
\* holds the entry's lock.
OnlyHolderWrites ==
    \A e \in (DOMAIN data) \cap (DOMAIN data') :
        (data'[e] # data[e] \/ counters'[e] # counters[e])
            => \E i \in 1..MaxWorkers :
                   /\ InLock(i)
                   /\ TaskOf(i).entry = e
                   /\ lockers[e] = i
                   /\ workers'[i] # workers[i]

\* C3: for every entry and pool size, at most one unit of work on the entry
\* is inside its locked section, and the entry's series and counter are
\* modified only by the unit of work holding its lock.
C3_LockProtectsEntry == [][Exclusive /\ Exclusive' /\ OnlyHolderWrites]_vars

\* A unit of work is inside the locked section of an entry while another
\* worker has a unit of work on the same entry waiting for the lock.
C3_Witness ==
    \E i, j \in 1..MaxWorkers :
        /\ InLock(i)
        /\ At(j, "lock")
        /\ TaskOf(j).entry = TaskOf(i).entry
        /\ DOMAIN data[TaskOf(i).entry] # {}

\* The units of work submitted on entry e.
TasksOn(e) == {k \in TaskIds : tasks[k].entry = e}

FinishedOk(t) == t.state = "FINISHED" /\ t.exc = "none"

\* C4: a push with the time key omitted stores under the counter as it
\* stands when the unit of work executes, so k such pushes submitted to a
\* freshly declared entry, with no other operation on it, end with k values
\* under the keys 0..k-1, whether or not the earlier pushes had executed when
\* the later ones were submitted.
C4_OmittedKeysAppend ==
    \A e \in DOMAIN data :
        (\A k \in TasksOn(e) : /\ IsPush(tasks[k])
                               /\ tasks[k].given = None
                               /\ FinishedOk(tasks[k]))
            => DOMAIN data[e] = 0..(Cardinality(TasksOn(e)) - 1)

\* Units of work k and k+1 are a push and a reset of the same entry by the
\* same caller, and the push has not failed.
PushThenReset(k) ==
    /\ k \in TaskIds /\ k + 1 \in TaskIds
    /\ IsPush(tasks[k]) /\ IsReset(tasks[k + 1])
    /\ tasks[k + 1].entry = tasks[k].entry
    /\ tasks[k + 1].by = tasks[k].by
    /\ tasks[k].exc = "none"

\* The series d holds value v under key t.
Holds(d, t, v) == t \in DOMAIN d /\ d[t] = v

\* wait() has returned to the caller of unit of work k since it was
\* submitted, and the caller has submitted nothing after it.
WaitedFor(k) ==
    /\ k = Len(tasks)
    /\ k \notin Range(futures)
    /\ Idle(tasks[k].by)

\* The on_reset handlers saw the pushed value, and the series is empty once
\* wait() has returned.
ResetSawPush(k) ==
    /\ \A j \in DOMAIN tasks[k + 1].calls :
           Holds(tasks[k + 1].calls[j].seen, tasks[k].time, tasks[k].value)
    /\ WaitedFor(k + 1) => get_serie(tasks[k].entry) = <<>>

Invoked(t) == [j \in DOMAIN t.calls |-> t.calls[j].h]

\* C7: when an on_push handler raises, the value is still stored, the
\* counter still incremented and the remaining handlers still invoked; the
\* exception does not reach the unit of work, and wait() returns once the
\* work is no longer queued or running.
C7_HandlerFailureIsolated ==
    /\ \A i \in 1..MaxWorkers :
           (At(i, "exit") /\ IsPush(TaskOf(i))) =>
               LET t == TaskOf(i)
               IN  /\ Holds(data[t.entry], t.time, t.value)
                   /\ counters[t.entry] = npushed[t.entry] + 1
                   /\ Invoked(t) = on_push_callables[t.entry]
    /\ \A k \in TaskIds :
           (IsPush(tasks[k]) /\ \E j \in DOMAIN tasks[k].calls : tasks[k].calls[j].raised) =>
               /\ tasks[k].exc = "none"
               /\ Done(k) => Invoked(tasks[k]) = on_push_callables[tasks[k].entry]
    /\ \A c \in Callers :
           (callers[c].pc = "waiting"
              /\ \A k \in callers[c].fs :
                     k \notin Range(queue) /\ \A i \in 1..MaxWorkers : workers[i].task # k)
           => ENABLED wait_end(c)

\* A push whose first handler raised has run its second handler, finished
\* without an exception, stored its value, and wait() has returned.
C7_Witness ==
    \E k \in TaskIds :
        /\ IsPush(tasks[k])
        /\ FinishedOk(tasks[k])
        /\ Len(tasks[k].calls) = 2
        /\ tasks[k].calls[1].raised /\ ~tasks[k].calls[2].raised
        /\ WaitedFor(k)
        /\ Holds(data[tasks[k].entry], tasks[k].time, tasks[k].value)
        /\ counters[tasks[k].entry] = 1

\* C8: a reset invokes every on_reset handler of the entry with the series
\* as it is before the clear, under the entry's lock, whether or not a
\* handler raises; then the series is empty and the length counter is 0.
C8_ResetHandlersThenClear ==
    \A i \in 1..MaxWorkers :
        (Running(i) /\ IsReset(TaskOf(i))) =>
            LET t == TaskOf(i)
                e == t.entry
                allInvoked == Invoked(t) = on_reset_callables[e]
            IN  /\ workers[i].pc \in {"handlers", "clear", "zero", "exit"} =>
                       lockers[e] = i
                /\ workers[i].pc \in {"handlers", "clear"} =>
                       \A j \in DOMAIN t.calls : t.calls[j].seen = data[e]
                /\ workers[i].pc = "clear" => allInvoked
                /\ workers[i].pc = "zero" => allInvoked /\ get_serie(e) = <<>>
                /\ workers[i].pc = "exit" =>
                       /\ allInvoked
                       /\ get_serie(e) = <<>>
                       /\ get_entry_length(e) = 0

\* A reset whose first handler raised on a non-empty series has run the
\* second handler on the same series and left the entry empty.
C8_Witness ==
    \E i \in 1..MaxWorkers :
        /\ At(i, "exit") /\ IsReset(TaskOf(i))
        /\ Len(TaskOf(i).calls) = 2
        /\ TaskOf(i).calls[1].raised
        /\ TaskOf(i).calls[1].seen # EmptyDict
        /\ TaskOf(i).calls[2].seen = TaskOf(i).calls[1].seen
        /\ get_serie(TaskOf(i).entry) = <<>>
        /\ get_entry_length(TaskOf(i).entry) = 0

\* A step in which the caller's call `last'` returns: the facade's calls
\* leave the workers alone, and every step of a worker changes `workers`.
Returns(ops) == workers' = workers /\ last'.op \in ops

\* C6: push, dump and reset in passive mode submit nothing, leave the pending
\* futures unchanged, change no series and no counter, and invoke no handler
\* (the invocations are recorded in tasks).
C6_PassiveCallsAreNoOps ==
    [][(Returns({"push", "dump", "reset"}) /\ mode = "passive") =>
           UNCHANGED <<execVars, storeVars, npushed>>]_vars

\* A push to a declared entry that has handlers has returned in passive mode
\* and nothing was ever submitted.
C6_Witness ==
    /\ mode = "passive"
    /\ last.op = "push"
    /\ last.entry \in DOMAIN data
    /\ on_push_callables[last.entry] # <<>>
    /\ tasks = <<>>

\* C9 as stated: push and reset of a name that was never declared raise in
\* the caller (KeyError is the code's unknown-entry error) and submit
\* nothing, and get_serie and get_entry_length fail for such a name.
\* Entries are never removed, so a name that is not declared now was not
\* declared when the last call was made or a unit of work submitted.
C9_UndeclaredFailsInCaller ==
    /\ (last.op \in {"push", "reset"} /\ last.entry \notin Range(entries))
           => last.raised = "KeyError"
    /\ \A k \in TaskIds :
           (tasks[k].op \in {"push", "reset"}) => tasks[k].entry \in Range(entries)
    /\ \A e \in Names \ Range(entries) :
           get_serie(e) = "KeyError" /\ get_entry_length(e) = "KeyError"

\* The names of the registry are pairwise distinct.
NoDuplicate(es) == Cardinality(Range(es)) = Len(es)

\* C10: declare of a registered name raises and leaves the registry as it
\* is: handler lists, lock, series, counter, and no second entry of the name.
C10_DuplicateDeclareFails ==
    [][(Returns({"declare"}) /\ last'.entry \in Range(entries)) =>
           /\ last'.raised = "Exception"
           /\ UNCHANGED storeVars
           /\ NoDuplicate(entries')]_vars

\* A declare of a registered name has raised; the entry holds a value and
\* its handlers.
C10_Witness ==
    /\ last.op = "declare" /\ last.raised = "Exception"
    /\ last.entry \in Range(entries)
    /\ data[last.entry] # EmptyDict
    /\ on_push_callables[last.entry] # <<>>
    /\ NoDuplicate(entries)

\* C11: once an entry is declared, path and pool never change, and every
\* set_path and set_pool call raises.
C11_ConfigFixedOnceDeclared ==
    [][entries # <<>> =>
           /\ path' = path
           /\ pool' = pool
           /\ Returns({"set_path", "set_pool"}) => last'.raised = "Exception"]_vars

\* With a path and a pool configured before the declare, a set_path after it
\* has raised.
C11_Witness ==
    /\ entries # <<>>
    /\ last.op = "set_path" /\ last.raised = "Exception"
    /\ path = "out"
    /\ pool = [kind |-> "process", n |-> MaxWorkers]

\* C12 as stated: set_name after a declare raises and leaves the name as it
\* is.
C12_SetNameLocked ==
    [][(entries # <<>> /\ Returns({"set_name"})) =>
           (last'.raised # "none" /\ name' = name)]_vars

\* The bound MaxTasks leaves room for n more units of work.
Room(n) == Len(tasks) + n <= MaxTasks

\* A thread that is not inside wait() can make each of the calls at once,
\* whatever is queued, running or locked.
CallsNeverBlock ==
    \A c \in Callers :
        Idle(c) =>
            /\ Room(1) => \A e \in Names :
                   /\ ENABLED reset(c, e)
                   /\ \A v \in Values, t \in Times \cup {None} : ENABLED push(c, e, v, t)
            /\ Room(Len(entries)) => ENABLED dump(c)

\* A thread inside wait() stays there while one of its futures is not done.
WaitBlocks ==
    \A c \in Callers :
        (callers[c].pc = "waiting" /\ \E k \in callers[c].fs : ~Done(k))
            => ~ENABLED wait_end(c)

\* A step that submits leaves the caller outside wait(), with the units of
\* work it submitted pending in the queue.
SubmitsAndReturns ==
    Len(tasks') > Len(tasks) =>
        /\ callers' = callers
        /\ \A k \in (Len(tasks) + 1)..Len(tasks') :
               tasks'[k].state = "PENDING" /\ k \in Range(queue')

\* C13: push, dump and reset return without waiting for the execution, also
\* while the entry's lock is held by a running unit of work; only wait()
\* blocks the caller on outstanding work.
C13_OnlyWaitBlocks ==
    /\ [](CallsNeverBlock /\ WaitBlocks)
    /\ [][SubmitsAndReturns]_vars

\* The thread is free to call while a worker holds the entry's lock and
\* another unit of work on the entry is queued behind it.
C13_Witness ==
    /\ Idle("c1")
    /\ \E e \in DOMAIN lockers :
           /\ \E i \in 1..MaxWorkers : Running(i) /\ lockers[e] = i
           /\ \E k \in Range(queue) : tasks[k].entry = e

\* A unit of work is queued or running.
Outstanding == queue # <<>> \/ \E i \in 1..MaxWorkers : Running(i)

\* The default pool has one worker: it can always take its next step,
\* whatever the mode.
RunsInAnyMode == (pool.n = 1 /\ Outstanding) => ENABLED WorkerStep

\* A push about to leave its with block has stored its value, incremented
\* the counter and invoked every handler, whatever the mode.
PushRunsCompletely ==
    \A i \in 1..MaxWorkers :
        (At(i, "exit") /\ IsPush(TaskOf(i))) =>
            /\ Holds(data[TaskOf(i).entry], TaskOf(i).time, TaskOf(i).value)
            /\ counters[TaskOf(i).entry] = npushed[TaskOf(i).entry] + 1
            /\ Invoked(TaskOf(i)) = on_push_callables[TaskOf(i).entry]

\* A call submits by the mode at the time of the call: nothing in passive
\* mode, and in active mode one unit of work per push or reset that does not
\* raise and one per entry for dump.
ModeGatesSubmission ==
    /\ (Returns({"push", "dump", "reset"}) /\ mode = "passive") => UNCHANGED execVars
    /\ (Returns({"push", "reset"}) /\ mode = "active" /\ last'.raised = "none") =>
           Len(tasks') = Len(tasks) + 1
    /\ (Returns({"dump"}) /\ mode = "active") =>
           Len(tasks') = Len(tasks) + Len(entries)
    /\ Returns({"set_mode"}) => UNCHANGED <<execVars, storeVars>>

\* C14: the mode is read when a call is made and never by a unit of work.
C14_ModeReadAtSubmission ==
    /\ [](RunsInAnyMode /\ PushRunsCompletely)
    /\ [][ModeGatesSubmission]_vars

\* A push submitted in active mode was taken by the worker in passive mode
\* and has run completely; the mode is active again and a later call has
\* submitted a second unit of work.
C14_Witness ==
    /\ Len(tasks) = 2
    /\ IsPush(tasks[1]) /\ FinishedOk(tasks[1])
    /\ tasks[1].started_in = "passive"
    /\ Holds(data[tasks[1].entry], tasks[1].time, tasks[1].value)
    /\ Invoked(tasks[1]) = on_push_callables[tasks[1].entry]
    /\ Invoked(tasks[1]) # <<>>
    /\ mode = "active"
    /\ tasks[2].state = "PENDING"

\* s lists the values of the series d in strictly ascending order of key,
\* one per key.
AscendingByKey(s, d) ==
    /\ Len(s) = Cardinality(DOMAIN d)
    /\ \E f \in [1..Len(s) -> DOMAIN d] :
           /\ \A i, j \in 1..Len(s) : i < j => f[i] < f[j]
           /\ \A i \in 1..Len(s) : s[i] = d[f[i]]

\* Every unit of work submitted on e is a push with an explicit key that has
\* completed.
OnlyPushesAllDone(e) ==
    \A k \in TasksOn(e) :
        IsPush(tasks[k]) /\ tasks[k].given # None /\ FinishedOk(tasks[k])

\* C15: once the pushes to e have completed, get_serie(e) is the stored
\* values in ascending order of key, one per distinct key pushed, each a value
\* pushed under that key, whatever the order of submission and execution.
C15_SerieSortedByKey ==
    \A e \in DOMAIN data :
        /\ AscendingByKey(get_serie(e), data[e])
        /\ OnlyPushesAllDone(e) =>
               /\ DOMAIN data[e] = {tasks[k].given : k \in TasksOn(e)}
               /\ \A t \in DOMAIN data[e] :
                      \E k \in TasksOn(e) :
                          tasks[k].given = t /\ tasks[k].value = data[e][t]

\* Key 5 was pushed before a smaller key, both pushes have completed, and
\* the value of key 5 is read last.
C15_Witness ==
    /\ Len(tasks) = 2
    /\ "a" \in DOMAIN data /\ OnlyPushesAllDone("a")
    /\ tasks[1].given = 5 /\ tasks[1].value = "x"
    /\ tasks[2].given < 5 /\ tasks[2].value = "y"
    /\ get_serie("a") = <<"y", "x">>

\* C16 as stated: a future leaves the list of futures only when it is done,
\* so a future appended by another thread during a wait() stays in the list
\* for the next wait().
C16_OnlyDoneFuturesRemoved ==
    [][\A k \in Range(futures) \ Range(futures') : Done(k)]_vars

\* C17 as stated: whenever no unit of work on e is queued or running,
\* get_entry_length(e) is the number of values get_serie(e) returns.
C17_LengthIsSerieLength ==
    \A e \in DOMAIN data :
        (\A k \in TasksOn(e) : Done(k)) =>
            get_entry_length(e) = Len(get_serie(e))

\* The unit of work has raised outside the handlers' try blocks.
Failed(k) == tasks[k].exc # "none"

\* A failed unit of work has its future done and occupies no worker.
FailedIsDone ==
    \A k \in TaskIds :
        Failed(k) => (Done(k) /\ \A i \in 1..MaxWorkers : workers[i].task # k)

\* A lock is held only by a worker that is inside the with block of a unit
\* of work on the entry.
NoLockLeftHeld ==
    \A e \in DOMAIN lockers :
        lockers[e] # 0 => (InLock(lockers[e]) /\ TaskOf(lockers[e]).entry = e)

\* wait() returns once its futures are done, failed or not.
WaitIgnoresFailure ==
    \A c \in Callers :
        (callers[c].pc = "waiting" /\ \A k \in callers[c].fs : Done(k))
            => ENABLED wait_end(c)

\* The step in which a unit of work fails changes nothing of the callers
\* and removes no future.
FailureStaysInWorker ==
    (\E k \in TaskIds : ~Failed(k) /\ tasks'[k].exc # "none") =>
        UNCHANGED <<callers, futures, queue, cfgVars>>

\* C18: a unit of work that raises outside the handlers' try blocks ends
\* with its future done and failed, nothing is raised to the caller or to
\* wait(), no lock stays held, and the pool goes on executing.
C18_FailureContained ==
    /\ [](FailedIsDone /\ NoLockLeftHeld /\ WaitIgnoresFailure)
    /\ [](Outstanding => ENABLED WorkerStep)
    /\ [][FailureStaysInWorker]_vars

\* A store that raised inside the with block was followed by a unit of work
\* on the same entry that completed normally, and wait() has returned.
C18_Witness ==
    /\ Len(tasks) = 2
    /\ tasks[1].exc = "PicklingError"
    /\ tasks[2].entry = tasks[1].entry /\ FinishedOk(tasks[2])
    /\ tasks[2].started_in # ""
    /\ lockers[tasks[1].entry] = 0
    /\ WaitedFor(2)

\* A worker inside a with block can take its next step.
HolderCanStep ==
    \A i \in 1..MaxWorkers :
        InLock(i) => ENABLED (Store(i) \/ IncrRead(i) \/ IncrWrite(i) \/ Handler(i)
                                \/ Clear(i) \/ Zero(i) \/ Exit(i))

\* C19: under fair scheduling every unit of work submitted is eventually
\* done, normally or failed, every wait() eventually returns, and no unit of
\* work waits for a lock that is never released.
C19_EverythingCompletes ==
    /\ \A k \in 1..MaxTasks : (k \in TaskIds) ~> (k \in TaskIds /\ Done(k))
    /\ (callers["c1"].pc = "waiting") ~> Idle("c1")
    /\ [](HolderCanStep /\ NoLockLeftHeld)

\* On two workers, one waits for the lock the other holds, while the caller
\* is inside wait().
C19_Witness ==
    /\ pool.n = 2
    /\ callers["c1"].pc = "waiting"
    /\ \E i, j \in 1..MaxWorkers :
           /\ InLock(i)
           /\ At(j, "lock")
           /\ TaskOf(j).entry = TaskOf(i).entry

\* The entries of the units of work a step submits, in order.
Submitted ==
    [k \in 1..(Len(tasks') - Len(tasks)) |-> tasks'[Len(tasks) + k].entry]

\* A dump() call in active mode submits one dump per declared entry, in the
\* order of the registry, and nothing else; only dump() submits dumps.
DumpSubmitsOnePerEntry ==
    /\ (dump("c1") /\ mode = "active") =>
           /\ Submitted = entries
           /\ \A k \in (Len(tasks) + 1)..Len(tasks') : tasks'[k].op = "dump"
    /\ (\E k \in (Len(tasks) + 1)..Len(tasks') : tasks'[k].op = "dump") => dump("c1")

\* A step of a worker that executes a dump changes no series and no counter.
DumpStepKeepsData ==
    \A i \in 1..MaxWorkers :
        (Running(i) /\ TaskOf(i).op = "dump" /\ workers'[i] # workers[i]) =>
            UNCHANGED <<data, counters, entries>>

\* A dump about to leave its with block has invoked the entry's on_dump
\* handlers in the order of registration, each on the current series.
DumpInvokesInOrder ==
    \A i \in 1..MaxWorkers :
        (At(i, "exit") /\ TaskOf(i).op = "dump") =>
            /\ Invoked(TaskOf(i)) = on_dump_callables[TaskOf(i).entry]
            /\ \A j \in DOMAIN TaskOf(i).calls :
                   TaskOf(i).calls[j].seen = data[TaskOf(i).entry]

\* C20: dump() in active mode submits one dump per entry declared at the
\* call; a dump invokes the on_dump handlers in registration order and leaves
\* every series and counter as they are.
C20_DumpPerEntryReadOnly ==
    /\ [][DumpSubmitsOnePerEntry /\ DumpStepKeepsData]_vars
    /\ []DumpInvokesInOrder

\* One dump() has submitted a dump for each of the two entries; the dump of
\* the entry with two handlers has invoked both, the second raising.
C20_Witness ==
    /\ Len(entries) = 2
    /\ Len(tasks) = 2
    /\ tasks[1].op = "dump" /\ tasks[2].op = "dump"
    /\ <<tasks[1].entry, tasks[2].entry>> = entries
    /\ \E k \in TaskIds :
           /\ FinishedOk(tasks[k])
           /\ Len(tasks[k].calls) = 2
           /\ tasks[k].calls[2].raised
           /\ Invoked(tasks[k]) = on_dump_callables[tasks[k].entry]

\* C21 as stated: one DataLogger object is constructed, every thread gets
\* the same object, and the object in _instances, with its entries, is never
\* replaced.
C21_CreatedOnce ==
    /\ [](created <= 1)
    /\ [](\A c, d \in Callers :
             (threads[c].got # 0 /\ threads[d].got # 0) =>
                 threads[c].got = threads[d].got)
    /\ [][instances # 0 => instances' = instances]_vars

\* The pool __init__ makes, ThreadPoolExecutor(max_workers=1): no successful
\* set_pool has replaced it (the set_pool calls of Spec ask for other pools).
DefaultPool == pool = [kind |-> "thread", n |-> 1]

\* Unit of work k, submitted after j by the same caller on the same entry,
\* has left the queue while j is not done.
Overtakes(k, j) ==
    /\ j < k
    /\ tasks[j].by = tasks[k].by
    /\ tasks[k].state # "PENDING"
    /\ ~Done(j)

\* No unit of work submitted after k has left the queue.
LastStarted(k) == \A m \in TaskIds : m > k => tasks[m].state = "PENDING"

\* On the default pool at most one unit of work is running, none starts
\* before the ones submitted earlier are done, and so, until later work
\* starts, a push followed by a reset of the entry leaves it empty and a
\* reset followed by a push leaves the value.
DefaultPoolInOrder ==
    DefaultPool =>
        /\ Cardinality({i \in 1..MaxWorkers : Running(i)}) <= 1
        /\ \A j, k \in TaskIds : ~Overtakes(k, j)
        /\ \A k \in TaskIds :
               (/\ PushThenReset(k) /\ LastStarted(k + 1)
                /\ FinishedOk(tasks[k]) /\ FinishedOk(tasks[k + 1]))
                   => (data[tasks[k].entry] = EmptyDict /\ counters[tasks[k].entry] = 0)
        /\ \A k \in TaskIds :
               (/\ k + 1 \in TaskIds
                /\ IsReset(tasks[k]) /\ IsPush(tasks[k + 1])
                /\ tasks[k + 1].entry = tasks[k].entry
                /\ LastStarted(k + 1)
                /\ FinishedOk(tasks[k]) /\ FinishedOk(tasks[k + 1]))
                   => Holds(data[tasks[k].entry], tasks[k + 1].time, tasks[k + 1].value)

\* With several workers the lock alone decides: of two units of work that
\* wait for the free lock of one entry, either may take it.
EitherMayGoFirst ==
    \A i, j \in 1..MaxWorkers :
        (/\ i # j /\ At(i, "lock") /\ At(j, "lock")
         /\ TaskOf(i).entry = TaskOf(j).entry
         /\ TaskOf(i).entry \in DOMAIN lockers
         /\ lockers[TaskOf(i).entry] = 0)
            => (ENABLED Acquire(i) /\ ENABLED Acquire(j))

\* C22: on the default pool the units of work of one caller execute one at
\* a time in the order of submission, so operations on one entry take effect
\* in the order requested; a unit of work overtakes an earlier one only on a
\* pool of more than one worker, where the order is not kept.
C22_DefaultPoolKeepsOrder ==
    /\ DefaultPoolInOrder
    /\ EitherMayGoFirst
    /\ (\E j, k \in TaskIds : Overtakes(k, j)) => pool.n > 1

\* The order is lost on two workers: a reset submitted after a push of the
\* same entry has completed and the push has not yet stored its value.
C22_Witness ==
    /\ pool.n = 2
    /\ Len(tasks) = 2
    /\ PushThenReset(1)
    /\ FinishedOk(tasks[2])
    /\ \E i \in 1..MaxWorkers : At(i, "lock") /\ workers[i].task = 1

====
